---- MODULE Spec2Model ----
(***************************************************************************)
(* A model of scripts/check-pr-standards.js: the diff anchor resolver      *)
(* (parseDiffForValidLines), the thread matcher (findMatchingThread) and   *)
(* the run of main(): thread snapshot, analysis, postReview, general       *)
(* notes, verdict.                                                         *)
(*                                                                         *)
(* Text is modelled as sequences of one-character strings, so that the     *)
(* regular expressions and the normalisation of the script are computed    *)
(* character by character.                                                 *)
(***************************************************************************)
EXTENDS Integers, Sequences, FiniteSets, TLC

VARIABLES
    pc,            \* position of the run / of the function under check
    diff,          \* the unified diff, as structured lines (rendered to text for the parser)
    validLines,    \* result of parseDiffForValidLines(diff)
    mThreads,      \* findMatchingThread: argument threads
    mTitle,        \* findMatchingThread: argument title
    mPath,         \* findMatchingThread: argument filePath
    mResult,       \* findMatchingThread: index of the returned thread, 0 for null
    labelOn,       \* whether the pull request carries NONCOMPLIANT_LABEL
    failureMode,   \* FAILURE_MODE
    reviewThreads, \* main: const reviewThreads = await getReviewThreads()
    data,          \* main: const analysisData = parseAnalysisJSON(rawAnalysis)
    effects,       \* the remote calls the run has issued, in order
    counts,        \* main: the result of countIssues(analysisData)
    exitCode       \* exit status of the process, -1 while it runs

fnVars == <<validLines, mThreads, mTitle, mPath, mResult>>
runVars == <<labelOn, failureMode, reviewThreads, data, effects, counts, exitCode>>
vars == <<pc, diff, fnVars, runVars>>

(***************************************************************************)
(* Bounds of the model.                                                    *)
(***************************************************************************)
\* longest diff, in lines, of the diff parser's specification
MaxDiffLen == 6
\* most threads in the argument of the matcher's specification
MaxMatchThreads == 2
\* most review threads on the pull request
MaxThreads == 2
\* most entries of the model output, over its six lists
MaxEntries == 2
\* most thread replies and resolutions that fail in a run
MaxFailedCalls == 1

(***************************************************************************)
(* Characters.                                                             *)
(***************************************************************************)
Digits == <<"0", "1", "2", "3", "4", "5", "6", "7", "8", "9">>

LowerLetters ==
    <<"a", "b", "c", "d", "e", "f", "g", "h", "i", "j", "k", "l", "m",
      "n", "o", "p", "q", "r", "s", "t", "u", "v", "w", "x", "y", "z">>

UpperLetters ==
    <<"A", "B", "C", "D", "E", "F", "G", "H", "I", "J", "K", "L", "M",
      "N", "O", "P", "Q", "R", "S", "T", "U", "V", "W", "X", "Y", "Z">>

Range(s) == {s[i] : i \in DOMAIN s}

DigitSet == Range(Digits)
LowerLetterSet == Range(LowerLetters)
UpperLetterSet == Range(UpperLetters)

IsDigit(c) == c \in DigitSet

\* String.prototype.startsWith
StartsWith(s, p) == Len(s) >= Len(p) /\ SubSeq(s, 1, Len(p)) = p

\* String.prototype.includes: p occurs in s as a contiguous substring
Includes(s, p) ==
    \E i \in 0..(Len(s) - Len(p)) : SubSeq(s, i + 1, i + Len(p)) = p

\* value of one decimal digit
DigitValue(c) == (CHOOSE i \in DOMAIN Digits : Digits[i] = c) - 1

RECURSIVE parseInt(_)
\* parseInt(s, 10) of a non-empty run of decimal digits
parseInt(s) ==
    IF s = <<>> THEN 0
    ELSE 10 * parseInt(SubSeq(s, 1, Len(s) - 1)) + DigitValue(s[Len(s)])

RECURSIVE Dec(_)
\* decimal text of a natural number, as git prints it in a hunk header
Dec(n) ==
    IF n < 10 THEN <<Digits[n + 1]>>
    ELSE Dec(n \div 10) \o <<Digits[(n % 10) + 1]>>

(***************************************************************************)
(* The unified diff.  A diff is a sequence of structured lines; RenderDiff *)
(* gives the text lines (diff.split('\n')) the parser reads.               *)
(***************************************************************************)
PathA == <<"a">>
PathB == <<"b">>
Paths == {PathA, PathB}

TextPlain == <<"x">>
\* the added source line "++i": its diff line is "+++i"
TextIncr == <<"+", "+", "i">>

FileLine(p)  == [kind |-> "file", path |-> p, start |-> 0, text |-> <<>>]
HunkLine(c)  == [kind |-> "hunk", path |-> <<>>, start |-> c, text |-> <<>>]
AddLine(t)   == [kind |-> "add", path |-> <<>>, start |-> 0, text |-> t]
CtxLine(t)   == [kind |-> "ctx", path |-> <<>>, start |-> 0, text |-> t]
DelLine(t)   == [kind |-> "del", path |-> <<>>, start |-> 0, text |-> t]

HunkStarts == {1, 10}

DiffLines ==
    {FileLine(p) : p \in Paths} \cup {HunkLine(c) : c \in HunkStarts}
        \cup {AddLine(TextPlain), AddLine(TextIncr), CtxLine(TextPlain), DelLine(TextPlain)}

IsContent(l) == l.kind \in {"add", "ctx", "del"}
IsNewSide(l) == l.kind \in {"add", "ctx"}

\* index of the last line of kind k before line i (0 when there is none)
LastBefore(d, i, k) ==
    LET js == {j \in 1..(i - 1) : d[j].kind = k}
    IN  IF js = {} THEN 0 ELSE CHOOSE j \in js : \A j2 \in js : j2 <= j

\* A unified diff as git writes it: it starts with a file header, a file
\* header is followed by a hunk header, and a hunk has at least one line.
WellFormedDiff(d) ==
    /\ Len(d) > 0 => d[1].kind = "file"
    /\ \A i \in DOMAIN d :
        /\ d[i].kind = "file" => (i < Len(d) /\ d[i + 1].kind = "hunk")
        /\ d[i].kind = "hunk" => (i < Len(d) /\ IsContent(d[i + 1]))
        /\ IsContent(d[i]) => LastBefore(d, i, "hunk") > LastBefore(d, i, "file")

\* the lines of the hunk whose header is line h
HunkBody(d, h) ==
    {j \in (h + 1)..Len(d) : IsContent(d[j]) /\ LastBefore(d, j, "hunk") = h}

\* ",n" of a hunk header; git omits it when the count is 1
CountText(n) == IF n = 1 THEN <<>> ELSE <<",">> \o Dec(n)

FileHeaderPrefix == <<"+", "+", "+", " ", "b", "/">>

\* the text of line i of diff d
RenderLine(d, i) ==
    LET l == d[i]
        oldCount == Cardinality({j \in HunkBody(d, i) : d[j].kind \in {"ctx", "del"}})
        newCount == Cardinality({j \in HunkBody(d, i) : IsNewSide(d[j])})
    IN  CASE l.kind = "file" -> FileHeaderPrefix \o l.path
          [] l.kind = "hunk" ->
                <<"@", "@", " ", "-">> \o Dec(l.start) \o CountText(oldCount)
                    \o <<" ", "+">> \o Dec(l.start) \o CountText(newCount)
                    \o <<" ", "@", "@">>
          [] l.kind = "add" -> <<"+">> \o l.text
          [] l.kind = "ctx" -> <<" ">> \o l.text
          [] l.kind = "del" -> <<"-">> \o l.text

RenderDiff(d) == [i \in DOMAIN d |-> RenderLine(d, i)]

\* the file a content line belongs to, and its line number in the new file
FileOf(d, i) == d[LastBefore(d, i, "file")].path

NewFileLineNumber(d, i) ==
    LET h == LastBefore(d, i, "hunk")
    IN  d[h].start + Cardinality({j \in (h + 1)..i : IsNewSide(d[j])}) - 1

(***************************************************************************)
(* parseDiffForValidLines                                                  *)
(***************************************************************************)
\* /^\+\+\+ b\/(.+)$/ : the captured path, <<>> when the line does not match
fileMatch(line) ==
    IF StartsWith(line, FileHeaderPrefix) /\ Len(line) > Len(FileHeaderPrefix)
    THEN SubSeq(line, Len(FileHeaderPrefix) + 1, Len(line))
    ELSE <<>>

RECURSIVE DigitsEnd(_, _)
\* \d+ from position i: the position after the run of digits
DigitsEnd(s, i) ==
    IF i <= Len(s) /\ IsDigit(s[i]) THEN DigitsEnd(s, i + 1) ELSE i

\* (?:,\d+)? from position i: the position after it
CountEnd(s, i) ==
    IF i <= Len(s) /\ s[i] = "," /\ DigitsEnd(s, i + 1) > i + 1
    THEN DigitsEnd(s, i + 1)
    ELSE i

\* /^@@ -\d+(?:,\d+)? \+(\d+)(?:,\d+)? @@/ : the captured digits, <<>> when
\* the line does not match
hunkMatch(line) ==
    LET e1 == DigitsEnd(line, 5)
        e2 == CountEnd(line, e1)
        e3 == DigitsEnd(line, e2 + 2)
        e4 == CountEnd(line, e3)
    IN  IF /\ StartsWith(line, <<"@", "@", " ", "-">>)
           /\ e1 > 5
           /\ SubSeq(line, e2, e2 + 1) = <<" ", "+">>
           /\ e3 > e2 + 2
           /\ SubSeq(line, e4, e4 + 2) = <<" ", "@", "@">>
        THEN SubSeq(line, e2 + 2, e3 - 1)
        ELSE <<>>

\* the state before the loop: validLines, currentFile (<<>> for null), newLineNum
ParseStart == [validLines |-> <<>>, currentFile |-> <<>>, newLineNum |-> 0]

\* newLineNum++; validLines.get(currentFile).add(newLineNum)
AddAnchor(st) ==
    [st EXCEPT !.newLineNum = @ + 1,
               !.validLines = [@ EXCEPT ![st.currentFile] = @ \cup {st.newLineNum + 1}]]

\* a '+' line that is counted: line.startsWith('+') && !line.startsWith('+++')
IsAddedLine(line) == StartsWith(line, <<"+">>) /\ ~StartsWith(line, <<"+", "+", "+">>)

\* one iteration of the loop over the lines
ParseLine(st, line) ==
    IF fileMatch(line) # <<>>
    THEN [st EXCEPT !.currentFile = fileMatch(line),
                    !.validLines = IF fileMatch(line) \in DOMAIN st.validLines
                                   THEN @
                                   ELSE @ @@ (fileMatch(line) :> {})]
    ELSE IF hunkMatch(line) # <<>>
    THEN [st EXCEPT !.newLineNum = parseInt(hunkMatch(line)) - 1]
    ELSE IF st.currentFile = <<>>
    THEN st
    ELSE IF IsAddedLine(line)
    THEN AddAnchor(st)
    ELSE IF StartsWith(line, <<" ">>)
    THEN AddAnchor(st)
    ELSE st

RECURSIVE ParseLines(_, _)
\* the loop over the first n lines
ParseLines(lines, n) ==
    IF n = 0 THEN ParseStart ELSE ParseLine(ParseLines(lines, n - 1), lines[n])

parseDiffForValidLines(lines) == ParseLines(lines, Len(lines)).validLines

\* the line number the loop gives to line i (0 when it adds none)
AssignedLineNumber(lines, i) ==
    LET before == ParseLines(lines, i - 1)
        after == ParseLines(lines, i)
    IN  IF after.newLineNum = before.newLineNum + 1 /\ after.currentFile = before.currentFile
           /\ after.currentFile # <<>> /\ after.newLineNum \in after.validLines[after.currentFile]
           /\ hunkMatch(lines[i]) = <<>>
        THEN after.newLineNum
        ELSE 0

\* Map.get(path).has(line), false when the path is no key
IsValidLine(vl, path, line) == path \in DOMAIN vl /\ line \in vl[path]

(***************************************************************************)
(* Titles and threads.                                                     *)
(***************************************************************************)
\* titles: "Sq" and "sq!" normalise to the same key "sq", "s" is a substring
\* of it, "!" normalises to the empty string, "x" is unrelated
TitleSq == <<"S", "q">>
TitleSqBang == <<"s", "q", "!">>
TitleS == <<"s">>
TitleBang == <<"!">>
TitleX == <<"x">>
Titles == {TitleSq, TitleSqBang, TitleS, TitleBang, TitleX}

\* botTitle when the first comment carries no "<icon> **Title**" marker
UnknownIssue == <<"U", "n", "k", "n", "o", "w", "n", " ", "I", "s", "s", "u", "e">>

\* String.prototype.toLowerCase, on one character
ToLower(c) ==
    IF c \in UpperLetterSet
    THEN LowerLetters[CHOOSE i \in DOMAIN UpperLetters : UpperLetters[i] = c]
    ELSE c

IsLowerAlnum(c) == c \in LowerLetterSet \/ IsDigit(c)

\* s.toLowerCase().replace(/[^a-z0-9]/g, ''), character by character
normOf(s) == SelectSeq([i \in DOMAIN s |-> ToLower(s[i])], IsLowerAlnum)

\* normOf of every title a thread or a finding can carry, computed once
NormOfTitle == [t \in Titles \cup {UnknownIssue} |-> normOf(t)]

\* norm = s => s.toLowerCase().replace(/[^a-z0-9]/g, '')
norm(s) == IF s \in DOMAIN NormOfTitle THEN NormOfTitle[s] ELSE normOf(s)

\* a thread object as getReviewThreads returns it
Thread(id, title, path, line, replies) ==
    [threadId |-> id, firstCommentId |-> 100 + id, path |-> path, line |-> line,
     botTitle |-> title, userReplies |-> replies]

\* Array.prototype.find: the index of the first element of the set of
\* matching indices, 0 for undefined
FirstIndex(hits) ==
    IF hits = {} THEN 0 ELSE CHOOSE i \in hits : \A j \in hits : i <= j

\* tier 2 before tier 1: what findMatchingThread would be with the two title
\* searches in the wrong order
findMatchingThread_SubstringFirst(threads, title, filePath) ==
    LET normTitle == norm(title)
        exact == {i \in DOMAIN threads : norm(threads[i].botTitle) = normTitle}
        substring == {i \in DOMAIN threads :
                         \/ Includes(norm(threads[i].botTitle), normTitle)
                         \/ Includes(normTitle, norm(threads[i].botTitle))}
        samePath == {i \in DOMAIN threads : threads[i].path = filePath}
    IN  IF substring # {} THEN FirstIndex(substring)
        ELSE IF exact # {} THEN FirstIndex(exact)
        ELSE IF filePath # <<>> /\ samePath # {} THEN FirstIndex(samePath)
        ELSE 0

\* the path search ahead of the two title searches
findMatchingThread_PathFirst(threads, title, filePath) ==
    LET normTitle == norm(title)
        exact == {i \in DOMAIN threads : norm(threads[i].botTitle) = normTitle}
        substring == {i \in DOMAIN threads :
                         \/ Includes(norm(threads[i].botTitle), normTitle)
                         \/ Includes(normTitle, norm(threads[i].botTitle))}
        samePath == {i \in DOMAIN threads : threads[i].path = filePath}
    IN  IF filePath # <<>> /\ samePath # {} THEN FirstIndex(samePath)
        ELSE IF exact # {} THEN FirstIndex(exact)
        ELSE IF substring # {} THEN FirstIndex(substring)
        ELSE 0

\* findMatchingThread(threads, title, filePath): the index in threads of the
\* thread returned, 0 for null; filePath <<>> stands for null
findMatchingThread(threads, title, filePath) ==
    LET normTitle == norm(title)
        exact == {i \in DOMAIN threads : norm(threads[i].botTitle) = normTitle}
        substring == {i \in DOMAIN threads :
                         \/ Includes(norm(threads[i].botTitle), normTitle)
                         \/ Includes(normTitle, norm(threads[i].botTitle))}
        samePath == {i \in DOMAIN threads : threads[i].path = filePath}
    IN  IF exact # {} THEN FirstIndex(exact)
        ELSE IF substring # {} THEN FirstIndex(substring)
        ELSE IF filePath # <<>> /\ samePath # {} THEN FirstIndex(samePath)
        ELSE 0

(***************************************************************************)
(* getReviewThreads                                                        *)
(***************************************************************************)
BotLogin == "github-actions"

\* a comment node of the GraphQL answer; marked/title stand for its body:
\* whether it holds "<icon> **title**", and the title it holds
RawComment(id, author, marked, title) ==
    [databaseId |-> id, author |-> author, marked |-> marked, title |-> title]

\* the filter of getReviewThreads without the check of isResolved
IsOpenBotThread_KeepsResolved(t) ==
    /\ Len(t.comments) > 0
    /\ t.comments[1].author = BotLogin

\* the filter of getReviewThreads: unresolved, first comment by the bot
IsOpenBotThread(t) ==
    /\ ~t.isResolved
    /\ Len(t.comments) > 0
    /\ t.comments[1].author = BotLogin

\* comments.slice(1).filter(c => c.author?.login !== 'github-actions')
UserReplies(comments) ==
    LET IsUser(c) == c.author # BotLogin
        replies == SelectSeq(Tail(comments), IsUser)
    IN  [i \in DOMAIN replies |-> replies[i].author]

\* the map of getReviewThreads
ToThread(t) ==
    [threadId |-> t.id,
     firstCommentId |-> t.comments[1].databaseId,
     path |-> t.path,
     line |-> t.line,
     botTitle |-> IF t.comments[1].marked THEN t.comments[1].title ELSE UnknownIssue,
     userReplies |-> UserReplies(t.comments)]

\* getReviewThreads() when the GraphQL query succeeds
getReviewThreads(raw) ==
    LET open == SelectSeq(raw, IsOpenBotThread)
    IN  [i \in DOMAIN open |-> ToThread(open[i])]

\* a thread of a pull request, by shape: an open bot thread with a human
\* reply, an open bot thread with bot replies only, a resolved bot thread, a
\* thread a human started
RawThread(i, shape) ==
    CASE shape = "open_replied" ->
            [id |-> i, isResolved |-> FALSE, path |-> PathA, line |-> 1,
             comments |-> <<RawComment(100 + i, BotLogin, TRUE, TitleSq),
                            RawComment(200 + i, "alice", FALSE, <<>>)>>]
      [] shape = "open_bumped" ->
            [id |-> i, isResolved |-> FALSE, path |-> PathB, line |-> 2,
             comments |-> <<RawComment(100 + i, BotLogin, TRUE, TitleS),
                            RawComment(200 + i, BotLogin, FALSE, <<>>)>>]
      [] shape = "resolved" ->
            [id |-> i, isResolved |-> TRUE, path |-> PathA, line |-> 1,
             comments |-> <<RawComment(100 + i, BotLogin, TRUE, TitleSq)>>]
      [] shape = "human" ->
            [id |-> i, isResolved |-> FALSE, path |-> PathB, line |-> 2,
             comments |-> <<RawComment(100 + i, "alice", FALSE, <<>>),
                            RawComment(200 + i, BotLogin, FALSE, <<>>)>>]

\* the threads a pull request may have, one of each shape
RawThreadPool ==
    <<RawThread(1, "open_replied"), RawThread(2, "open_bumped"),
      RawThread(3, "resolved"), RawThread(4, "human")>>

\* the responses of the threads query: up to MaxThreads distinct threads of
\* the pool, in any order
RawThreadInputs ==
    {[i \in DOMAIN order |-> RawThreadPool[order[i]]] :
        order \in {o \in UNION {[1..n -> DOMAIN RawThreadPool] : n \in 0..MaxThreads} :
                      \A a, b \in DOMAIN o : a # b => o[a] # o[b]}}

(***************************************************************************)
(* The model output.                                                       *)
(***************************************************************************)
BodyText == <<"b">>
BumpText == <<"m">>
NoteText == <<"n">>

Finding(priority, title, path, line, body, bump) ==
    [priority |-> priority, title |-> title, path |-> path, line |-> line,
     body |-> body, bump_message |-> bump]

\* the diff of a run: file a with the new-file lines 1 and 2
RunDiff == <<FileLine(PathA), HunkLine(1), AddLine(TextPlain), CtxLine(TextPlain)>>

\* findings: a must_fix on an anchor, an other-priority one and a must_fix
\* off the diff (a:999), one with a priority outside the enum on a file the
\* diff does not touch
FindingPool ==
    {Finding("must_fix", TitleSqBang, PathA, 1, BodyText, <<>>),
     Finding("other", TitleX, PathA, 999, <<>>, BumpText),
     Finding("must_fix", TitleS, PathA, 999, BodyText, <<>>),
     Finding("high", TitleBang, PathB, 2, BodyText, <<>>)}

TitlePool == {TitleSq, TitleBang, TitleX}

SeqsOfLen(S, n) == [1..n -> S]

\* the lengths of the six lists
EntrySplits ==
    {k \in [1..6 -> 0..MaxEntries] : k[1] + k[2] + k[3] + k[4] + k[5] + k[6] <= MaxEntries}

AnalysisOutputs ==
    UNION {
        {[parsed |-> TRUE, status |-> st, findings |-> f, persisting |-> p,
          new_findings |-> nf, resolved |-> r, accepted_explanations |-> a,
          general_notes |-> g] :
            st \in {"BLOCK_MERGE", "APPROVED"},
            f \in SeqsOfLen(FindingPool, k[1]),
            p \in SeqsOfLen(FindingPool, k[2]),
            nf \in SeqsOfLen(FindingPool, k[3]),
            r \in SeqsOfLen(TitlePool, k[4]),
            a \in SeqsOfLen(TitlePool, k[5]),
            g \in SeqsOfLen({NoteText}, k[6])} :
        k \in EntrySplits}

(***************************************************************************)
(* countIssues, buildReviewBody                                            *)
(***************************************************************************)
\* all.filter(f => f.priority === p).length
CountPriority(all, p) == Cardinality({i \in DOMAIN all : all[i].priority = p})

\* the block decision recomputed from the priorities instead of read from
\* data.status
countIssues_BlockOnMustFix(d) ==
    LET all == d.findings \o d.persisting \o d.new_findings
    IN  [highPriorityCount |-> CountPriority(all, "must_fix"),
         mediumPriorityCount |-> CountPriority(all, "other"),
         lowPriorityCount |-> 0,
         totalIssues |-> Len(all),
         shouldBlock |-> CountPriority(all, "must_fix") > 0]

\* data.new_findings left out of the count
countIssues_WithoutNewFindings(d) ==
    LET all == d.findings \o d.persisting
    IN  [highPriorityCount |-> CountPriority(all, "must_fix"),
         mediumPriorityCount |-> CountPriority(all, "other"),
         lowPriorityCount |-> 0,
         totalIssues |-> Len(all),
         shouldBlock |-> d.status = "BLOCK_MERGE"]

countIssues(d) ==
    LET all == d.findings \o d.persisting \o d.new_findings
    IN  [highPriorityCount |-> CountPriority(all, "must_fix"),
         mediumPriorityCount |-> CountPriority(all, "other"),
         lowPriorityCount |-> 0,
         totalIssues |-> Len(all),
         shouldBlock |-> d.status = "BLOCK_MERGE"]

priorityIcon(p) == IF p = "must_fix" THEN "red" ELSE "yellow"

\* a list line of the body: "<icon> **title** (`path:line`)"
BodyEntry(f) ==
    [icon |-> priorityIcon(f.priority), title |-> f.title, path |-> f.path, line |-> f.line]

\* a block of the additional-findings section: the heading and f.body || f.title
AdditionalEntry(f) ==
    [icon |-> priorityIcon(f.priority), title |-> f.title, path |-> f.path, line |-> f.line,
     text |-> IF f.body # <<>> THEN f.body ELSE f.title]

\* (data.findings || []).filter(f => f.priority === p), as body lines
PriorityGroup(findings, p) ==
    LET IsP(f) == f.priority = p
        group == SelectSeq(findings, IsP)
    IN  [i \in DOMAIN group |-> BodyEntry(group[i])]

\* the review body, section by section
buildReviewBody(d, isReReview, unplaceable) ==
    [reReview |-> isReReview,
     persistingCount |-> IF isReReview THEN Len(d.persisting) ELSE 0,
     newIssues |-> IF isReReview
                   THEN [i \in DOMAIN d.new_findings |-> BodyEntry(d.new_findings[i])]
                   ELSE <<>>,
     resolved |-> IF isReReview THEN d.resolved ELSE <<>>,
     accepted |-> IF isReReview THEN d.accepted_explanations ELSE <<>>,
     mustFix |-> IF isReReview THEN <<>> ELSE PriorityGroup(d.findings, "must_fix"),
     other |-> IF isReReview THEN <<>> ELSE PriorityGroup(d.findings, "other"),
     additional |-> [i \in DOMAIN unplaceable |-> AdditionalEntry(unplaceable[i])],
     status |-> d.status]

(***************************************************************************)
(* The values of a run before it starts.                                   *)
(***************************************************************************)
\* analysisData when parseAnalysisJSON returned null
NoData ==
    [parsed |-> FALSE, status |-> "", findings |-> <<>>, persisting |-> <<>>,
     new_findings |-> <<>>, resolved |-> <<>>, accepted_explanations |-> <<>>,
     general_notes |-> <<>>]

NoCounts ==
    [highPriorityCount |-> 0, mediumPriorityCount |-> 0, lowPriorityCount |-> 0,
     totalIssues |-> 0, shouldBlock |-> FALSE]

RunFresh ==
    /\ reviewThreads = <<>>
    /\ data = NoData
    /\ effects = <<>>
    /\ counts = NoCounts
    /\ exitCode = -1

\* the run's variables in the specifications of the single functions
RunIdle ==
    /\ labelOn = FALSE
    /\ failureMode = "fail"
    /\ RunFresh

(***************************************************************************)
(* The diff parser on its own: a diff is drawn, then parsed.               *)
(***************************************************************************)
DiffInputs ==
    {d \in UNION {[1..n -> DiffLines] : n \in 0..MaxDiffLen} : WellFormedDiff(d)}

InitDiff ==
    /\ pc = "diff_input"
    /\ diff \in DiffInputs
    /\ validLines = <<>>
    /\ mThreads = <<>>
    /\ mTitle = <<>>
    /\ mPath = <<>>
    /\ mResult = 0
    /\ RunIdle

ParseDiff ==
    /\ pc = "diff_input"
    /\ validLines' = parseDiffForValidLines(RenderDiff(diff))
    /\ pc' = "diff_parsed"
    /\ UNCHANGED <<diff, mThreads, mTitle, mPath, mResult, runVars>>

NextDiff == ParseDiff

SpecDiff == InitDiff /\ [][NextDiff]_vars

(***************************************************************************)
(* The matcher on its own: threads, a title and a path are drawn, then     *)
(* matched.                                                                *)
(***************************************************************************)
\* threads with the titles and paths of a sequence of <<title, path>> pairs
ThreadsOf(pairs) ==
    [i \in DOMAIN pairs |-> Thread(i, pairs[i][1], pairs[i][2], 1, <<>>)]

MatchInputs ==
    {ThreadsOf(ps) : ps \in UNION {[1..n -> Titles \X Paths] : n \in 0..MaxMatchThreads}}

InitMatch ==
    /\ pc = "match_input"
    /\ mThreads \in MatchInputs
    /\ mTitle \in Titles
    /\ mPath \in Paths \cup {<<>>}
    /\ mResult = 0
    /\ diff = <<>>
    /\ validLines = <<>>
    /\ RunIdle

Match ==
    /\ pc = "match_input"
    /\ mResult' = findMatchingThread(mThreads, mTitle, mPath)
    /\ pc' = "matched"
    /\ UNCHANGED <<diff, validLines, mThreads, mTitle, mPath, runVars>>

NextMatch == Match

SpecMatch == InitMatch /\ [][NextMatch]_vars

(***************************************************************************)
(* postReview                                                              *)
(***************************************************************************)
\* the check of the line left out: any line of a file of the diff is taken
IsPlaceable_AnyLineOfFile(vl, f) == f.path \in DOMAIN vl

\* fileLines && fileLines.has(finding.line)
IsPlaceable(vl, f) == IsValidLine(vl, f.path, f.line)

\* the inline comment of a finding; body stands for
\* "<icon> **title**\n\nbody"
InlineComment(f) ==
    [path |-> f.path, line |-> f.line, side |-> "RIGHT",
     body |-> [icon |-> priorityIcon(f.priority), title |-> f.title, text |-> f.body]]

\* persisting findings posted again as new comments on a re-review
findingsForInline_WithPersisting(d, isReReview) ==
    IF isReReview THEN d.new_findings \o d.persisting ELSE d.findings

\* the findings that need new inline comments
findingsForInline(d, isReReview) == IF isReReview THEN d.new_findings ELSE d.findings

\* the loop of postReview over findingsForInline: the inline comments
inlineComments(d, isReReview, vl) ==
    LET Placeable(f) == IsPlaceable(vl, f)
        placed == SelectSeq(findingsForInline(d, isReReview), Placeable)
    IN  [i \in DOMAIN placed |-> InlineComment(placed[i])]

\* the loop of postReview over findingsForInline: the fallback list
unplaceable(d, isReReview, vl) ==
    LET NotPlaceable(f) == ~IsPlaceable(vl, f)
    IN  SelectSeq(findingsForInline(d, isReReview), NotPlaceable)

\* the payload of the review submission
reviewPayload(d, isReReview, vl) ==
    [body |-> buildReviewBody(d, isReReview, unplaceable(d, isReReview, vl)),
     event |-> "COMMENT",
     comments |-> inlineComments(d, isReReview, vl)]

\* a remote call; entry names the entry of the model output it is made for
\* (<<list, index>>), ok whether the call succeeded
Call(op, target, payload, entry) ==
    [op |-> op, target |-> target, payload |-> payload, entry |-> entry, ok |-> TRUE]

\* the body of a bump reply: the icon and finding.bump_message (<<>> for the
\* default text)
BumpBody(f) == [kind |-> "still_open", icon |-> priorityIcon(f.priority), message |-> f.bump_message]

AckBody == [kind |-> "accepted", icon |-> "check", message |-> <<>>]

RECURSIVE BumpCalls(_, _, _)
\* the loop over data.persisting, up to entry n: the replies it issues
BumpCalls(threads, persisting, n) ==
    IF n = 0 THEN <<>>
    ELSE LET f == persisting[n]
             m == findMatchingThread(threads, f.title, f.path)
         IN  BumpCalls(threads, persisting, n - 1) \o
                 (IF m # 0
                  THEN <<Call("reply", threads[m].firstCommentId, BumpBody(f), <<"persisting", n>>)>>
                  ELSE <<>>)

RECURSIVE ResolveCalls(_, _, _)
\* the loop over data.resolved, up to entry n
ResolveCalls(threads, resolved, n) ==
    IF n = 0 THEN <<>>
    ELSE LET m == findMatchingThread(threads, resolved[n], <<>>)
         IN  ResolveCalls(threads, resolved, n - 1) \o
                 (IF m # 0
                  THEN <<Call("resolve", threads[m].threadId, <<>>, <<"resolved", n>>)>>
                  ELSE <<>>)

\* the acknowledgement and the resolution of an accepted explanation in the
\* other order
RECURSIVE AcceptCalls_ResolveFirst(_, _, _)
AcceptCalls_ResolveFirst(threads, accepted, n) ==
    IF n = 0 THEN <<>>
    ELSE LET m == findMatchingThread(threads, accepted[n], <<>>)
         IN  AcceptCalls_ResolveFirst(threads, accepted, n - 1) \o
                 (IF m # 0
                  THEN <<Call("resolve", threads[m].threadId, <<>>, <<"accepted_explanations", n>>),
                         Call("reply", threads[m].firstCommentId, AckBody, <<"accepted_explanations", n>>)>>
                  ELSE <<>>)

RECURSIVE AcceptCalls(_, _, _)
\* the loop over data.accepted_explanations, up to entry n
AcceptCalls(threads, accepted, n) ==
    IF n = 0 THEN <<>>
    ELSE LET m == findMatchingThread(threads, accepted[n], <<>>)
         IN  AcceptCalls(threads, accepted, n - 1) \o
                 (IF m # 0
                  THEN <<Call("reply", threads[m].firstCommentId, AckBody, <<"accepted_explanations", n>>),
                         Call("resolve", threads[m].threadId, <<>>, <<"accepted_explanations", n>>)>>
                  ELSE <<>>)

\* postReview with a sweep added after the three loops that resolves every
\* thread none of them acted on
ThreadCalls_ResolveUnmatched(d, isReReview, threads) ==
    IF ~isReReview THEN <<>>
    ELSE LET base == BumpCalls(threads, d.persisting, Len(d.persisting))
                        \o ResolveCalls(threads, d.resolved, Len(d.resolved))
                        \o AcceptCalls(threads, d.accepted_explanations, Len(d.accepted_explanations))
             Untouched(i) ==
                 \A c \in DOMAIN base :
                     base[c].target \notin {threads[i].threadId, threads[i].firstCommentId}
             rest == SelectSeq([i \in DOMAIN threads |-> i], Untouched)
         IN  base \o [k \in DOMAIN rest |->
                         Call("resolve", threads[rest[k]].threadId, <<>>, <<"untouched", rest[k]>>)]

\* postReview leaving its loops at the first entry that matches no thread:
\* the entries after it are not processed
ThreadCalls_StopAtUnmatched(d, isReReview, threads) ==
    IF ~isReReview THEN <<>>
    ELSE LET entries == [n \in DOMAIN d.persisting |-> <<"persisting", n>>]
                           \o [n \in DOMAIN d.resolved |-> <<"resolved", n>>]
                           \o [n \in DOMAIN d.accepted_explanations |-> <<"accepted_explanations", n>>]
             MatchOf(e) ==
                 IF e[1] = "persisting"
                 THEN findMatchingThread(threads, d.persisting[e[2]].title, d.persisting[e[2]].path)
                 ELSE findMatchingThread(threads, d[e[1]][e[2]], <<>>)
             unmatched == {k \in DOMAIN entries : MatchOf(entries[k]) = 0}
             Before(c) ==
                 \A k \in unmatched : \E j \in 1..(k - 1) : entries[j] = c.entry
             base == BumpCalls(threads, d.persisting, Len(d.persisting))
                        \o ResolveCalls(threads, d.resolved, Len(d.resolved))
                        \o AcceptCalls(threads, d.accepted_explanations, Len(d.accepted_explanations))
         IN  SelectSeq(base, Before)

\* postReview with the loop over data.resolved ahead of the loop over
\* data.persisting
ThreadCalls_ResolvesFirst(d, isReReview, threads) ==
    IF ~isReReview THEN <<>>
    ELSE ResolveCalls(threads, d.resolved, Len(d.resolved))
            \o BumpCalls(threads, d.persisting, Len(d.persisting))
            \o AcceptCalls(threads, d.accepted_explanations, Len(d.accepted_explanations))

\* postReview without the loop over data.persisting
ThreadCalls_NoBumps(d, isReReview, threads) ==
    IF ~isReReview THEN <<>>
    ELSE ResolveCalls(threads, d.resolved, Len(d.resolved))
            \o AcceptCalls(threads, d.accepted_explanations, Len(d.accepted_explanations))

\* the calls of postReview after the review submission
ThreadCalls(d, isReReview, threads) ==
    IF ~isReReview THEN <<>>
    ELSE BumpCalls(threads, d.persisting, Len(d.persisting))
            \o ResolveCalls(threads, d.resolved, Len(d.resolved))
            \o AcceptCalls(threads, d.accepted_explanations, Len(d.accepted_explanations))

\* replyToReviewComment and resolveReviewThread without their try / catch:
\* the failure of a call is thrown to postReview
Catches_Rethrows(op) == FALSE

\* the failure of a call of this kind is caught where the call is made and
\* only logged: replyToReviewComment and resolveReviewThread do so, the
\* review submission and postComment rethrow
Catches(op) == op \in {"reply", "resolve"}

\* calls with their outcomes
WithOutcomes(calls, oks) == [i \in DOMAIN calls |-> [calls[i] EXCEPT !.ok = oks[i]]]

\* the outcomes of n calls of which at most MaxFailedCalls fail
CallOutcomes(n) ==
    {oks \in [1..n -> BOOLEAN] : Cardinality({i \in 1..n : ~oks[i]}) <= MaxFailedCalls}

(***************************************************************************)
(* What the calls leave on the pull request.                               *)
(***************************************************************************)
\* the calls of a list that reached the platform
Applied(effs) ==
    LET Ok(e) == e.ok
    IN  SelectSeq(effs, Ok)

\* the state of the pull request after the calls of a list, as far as the
\* calls determine it: every POST of a review, of a reply or of a
\* conversation comment creates one more object, a resolution marks its
\* thread resolved, the last label call decides the label
RemoteAfter(effs) ==
    LET done == Applied(effs)
        Of(op) == {i \in DOMAIN done : done[i].op = op}
        labelCalls == Of("addLabel") \cup Of("removeLabel")
    IN  [reviews |-> [i \in 1..Cardinality(Of("review")) |->
                         done[CHOOSE k \in Of("review") :
                                  Cardinality({j \in Of("review") : j <= k}) = i].payload],
         replies |-> [t \in {done[i].target : i \in Of("reply")} |->
                         Cardinality({i \in Of("reply") : done[i].target = t})],
         resolved |-> {done[i].target : i \in Of("resolve")},
         comments |-> Cardinality(Of("comment")),
         label |-> IF labelCalls = {} THEN "as_before"
                   ELSE done[CHOOSE k \in labelCalls : \A j \in labelCalls : j <= k].op]

(***************************************************************************)
(* main: one run of the check on the pull request.                         *)
(***************************************************************************)
\* the configuration and the label state of the pull request at the start
\* of a run
Init ==
    /\ pc = "threads"
    /\ diff = RunDiff
    /\ labelOn \in BOOLEAN
    /\ failureMode \in {"fail", "label"}
    /\ RunFresh
    /\ validLines = <<>>
    /\ mThreads = <<>>
    /\ mTitle = <<>>
    /\ mPath = <<>>
    /\ mResult = 0

\* the calls that throw: the failed ones whose failure is not caught
Thrown(calls) == {i \in DOMAIN calls : ~calls[i].ok /\ ~Catches(calls[i].op)}

Throws(calls) == Thrown(calls) # {}

\* the calls made of a sequence of calls: all of them, or those up to the
\* first that throws
IssuedCalls(calls) ==
    IF Throws(calls)
    THEN SubSeq(calls, 1, CHOOSE i \in Thrown(calls) : \A j \in Thrown(calls) : i <= j)
    ELSE calls

\* const reviewThreads = await getReviewThreads(): the query answers with
\* the threads of the pull request, or fails, and the function then returns
\* []
GetReviewThreads ==
    /\ pc = "threads"
    /\ \E raw \in RawThreadInputs, ok \in BOOLEAN :
          reviewThreads' = IF ok THEN getReviewThreads(raw) ELSE <<>>
    /\ pc' = "analyze"
    /\ UNCHANGED <<diff, fnVars, labelOn, failureMode, data, effects, counts, exitCode>>

\* analyzeWithClaude and parseAnalysisJSON: any output of the model, or no
\* parseable JSON block (null), which throws
Analyze ==
    /\ pc = "analyze"
    /\ \E d \in AnalysisOutputs \cup {NoData} :
          /\ data' = d
          /\ pc' = IF d.parsed THEN "post_review" ELSE "catch"
    /\ UNCHANGED <<diff, fnVars, labelOn, failureMode, reviewThreads, effects, counts, exitCode>>

\* the mode taken from the model output: a re-review whenever the output
\* has an entry for an existing thread
IsReReview_FromModelOutput ==
    Len(data.persisting) + Len(data.resolved) + Len(data.accepted_explanations) > 0

\* const isReReview = reviewThreads.length > 0
IsReReview == Len(reviewThreads) > 0

\* await postReview(analysisData, diff, modelId, isReReview, reviewThreads):
\* the review submission, which throws when it fails, then on a re-review
\* the replies and resolutions, each of which catches its own failure
PostReview ==
    /\ pc = "post_review"
    /\ validLines' = parseDiffForValidLines(RenderDiff(diff))
    /\ LET review == Call("review", 0, reviewPayload(data, IsReReview, validLines'), <<"review", 0>>)
           calls == ThreadCalls(data, IsReReview, reviewThreads)
       IN  \/ /\ effects' = effects \o <<[review EXCEPT !.ok = FALSE]>>
              /\ pc' = "catch"
           \/ \E oks \in CallOutcomes(Len(calls)) :
                 /\ effects' = effects \o <<review>> \o IssuedCalls(WithOutcomes(calls, oks))
                 /\ pc' = IF Throws(WithOutcomes(calls, oks)) THEN "catch"
                          ELSE IF data.general_notes # <<>> THEN "general_notes"
                          ELSE "verdict"
    /\ UNCHANGED <<diff, mThreads, mTitle, mPath, mResult>>
    /\ UNCHANGED <<labelOn, failureMode, reviewThreads, data, counts, exitCode>>

\* main without the call of postGeneralNotes: the notes are posted nowhere
PostGeneralNotes_Skipped ==
    /\ pc = "general_notes"
    /\ pc' = "verdict"
    /\ UNCHANGED <<diff, fnVars, runVars>>

\* await postGeneralNotes(analysisData.general_notes, modelId): postComment
\* rethrows its failure
PostGeneralNotes ==
    /\ pc = "general_notes"
    /\ \E ok \in BOOLEAN :
          /\ effects' = effects \o
                <<[Call("comment", 0, [kind |-> "general_notes", notes |-> data.general_notes],
                        <<"general_notes", 0>>) EXCEPT !.ok = ok]>>
          /\ pc' = IF ok THEN "verdict" ELSE "catch"
    /\ UNCHANGED <<diff, fnVars, labelOn, failureMode, reviewThreads, data, counts, exitCode>>

\* a label call; present notes whether the pull request carried the label
\* when the call was made
LabelCall(op, present, ok) ==
    [Call(op, 0, [present |-> present], <<"label", 0>>) EXCEPT !.ok = ok]

\* addNoncompliantLabel: the label state of the pull request after the call
addNoncompliantLabel(on, ok) == on \/ ok

\* removeLabelIfPresent with a call that removes nothing
removeLabelIfPresent_KeepsLabel(on, ok) == on

\* removeLabelIfPresent: the label state of the pull request after the call
removeLabelIfPresent(on, ok) == on /\ ~ok

NoticeCall(kind, ok) ==
    [Call("comment", 0, [kind |-> kind, notes |-> <<>>], <<"notice", 0>>) EXCEPT !.ok = ok]

\* countIssues and the decision of main: fail or label when there is any
\* issue, else the success comment and the removal of the label
Verdict ==
    /\ pc = "verdict"
    /\ counts' = countIssues(data)
    /\ IF counts'.totalIssues > 0 \/ counts'.shouldBlock
       THEN IF failureMode = "label"
            THEN \E ok \in BOOLEAN :
                    /\ effects' = effects \o <<LabelCall("addLabel", labelOn, ok)>>
                    /\ labelOn' = addNoncompliantLabel(labelOn, ok)
                    /\ exitCode' = 0
                    /\ pc' = "exited"
            ELSE /\ exitCode' = 1
                 /\ pc' = "exited"
                 /\ UNCHANGED <<effects, labelOn>>
       ELSE \/ /\ effects' = effects \o <<NoticeCall("success", FALSE)>>
               /\ pc' = "catch"
               /\ UNCHANGED <<labelOn, exitCode>>
            \/ \E ok \in BOOLEAN :
                  /\ effects' = effects \o <<NoticeCall("success", TRUE),
                                               LabelCall("removeLabel", labelOn, ok)>>
                  /\ labelOn' = removeLabelIfPresent(labelOn, ok)
                  /\ exitCode' = 0
                  /\ pc' = "exited"
    /\ UNCHANGED <<diff, fnVars, failureMode, reviewThreads, data>>

\* the catch of main without the fallback notice
Catch_Silent ==
    /\ pc = "catch"
    /\ exitCode' = 1
    /\ pc' = "aborted"
    /\ UNCHANGED <<diff, fnVars, labelOn, failureMode, reviewThreads, data, effects, counts>>

\* the catch block of main: the fallback comment, whose failure is only
\* logged, then process.exit(1)
Catch ==
    /\ pc = "catch"
    /\ \E ok \in BOOLEAN : effects' = effects \o <<NoticeCall("fallback", ok)>>
    /\ exitCode' = 1
    /\ pc' = "aborted"
    /\ UNCHANGED <<diff, fnVars, labelOn, failureMode, reviewThreads, data, counts>>

\* the next run of the workflow on the pull request (a push or a reopening
\* triggers it once the run before it has ended): the process starts anew,
\* the configuration and the label on the pull request are what they were
NextRun ==
    /\ pc \in {"exited", "aborted"}
    /\ pc' = "threads"
    /\ reviewThreads' = <<>>
    /\ data' = NoData
    /\ effects' = <<>>
    /\ counts' = NoCounts
    /\ exitCode' = -1
    /\ validLines' = <<>>
    /\ UNCHANGED <<diff, mThreads, mTitle, mPath, mResult, labelOn, failureMode>>

Next ==
    \/ GetReviewThreads
    \/ Analyze
    \/ PostReview
    \/ PostGeneralNotes
    \/ Verdict
    \/ Catch
    \/ NextRun

Spec == Init /\ [][Next]_vars

(***************************************************************************)
(* getReviewThreads on its own: the answer of the threads query is drawn,  *)
(* then the index is built from it, or the query fails.                    *)
(***************************************************************************)
\* the comments a thread of the answer may have: up to two, each by the bot
\* or by a human; k is the thread's place in the answer
SnapshotComments(k) ==
    UNION {{[c \in 1..n |-> RawComment(100 * c + k, authors[c], c = 1, TitleSq)] :
               authors \in [1..n -> {BotLogin, "alice"}]} : n \in 0..2}

\* the answers of the threads query: up to MaxThreads threads, resolved or
\* not, with any such comments
ThreadSnapshots ==
    UNION {{[k \in 1..n |-> [id |-> k, isResolved |-> res[k], path |-> PathA, line |-> 1,
                             comments |-> com[k]]] :
               res \in [1..n -> BOOLEAN],
               com \in {f \in [1..n -> UNION {SnapshotComments(k) : k \in 1..n}] :
                           \A k \in 1..n : f[k] \in SnapshotComments(k)}} :
           n \in 0..MaxThreads}

InitThreads ==
    /\ pc = "snapshot"
    /\ mThreads \in ThreadSnapshots
    /\ mTitle = <<>>
    /\ mPath = <<>>
    /\ mResult = 0
    /\ diff = <<>>
    /\ validLines = <<>>
    /\ RunIdle

\* getReviewThreads(): the index of the answer held in mThreads, or [] when
\* the query throws
FetchThreads ==
    /\ pc = "snapshot"
    /\ \E ok \in BOOLEAN :
          /\ reviewThreads' = IF ok THEN getReviewThreads(mThreads) ELSE <<>>
          /\ pc' = IF ok THEN "indexed" ELSE "fetch_failed"
    /\ UNCHANGED <<diff, fnVars, labelOn, failureMode, data, effects, counts, exitCode>>

NextThreads == FetchThreads

SpecThreads == InitThreads /\ [][NextThreads]_vars

(***************************************************************************)
(* postReview run twice on the same inputs: the thread index and the model *)
(* output are drawn, then two passes decide their effects one after the    *)
(* other.                                                                  *)
(***************************************************************************)
\* the calls postReview decides on: the review submission, then the calls on
\* the threads
DecidedCalls(d, threads, vl) ==
    <<Call("review", 0, reviewPayload(d, Len(threads) > 0, vl), <<"review", 0>>)>>
        \o ThreadCalls(d, Len(threads) > 0, threads)

InitTwice ==
    /\ pc = "pass_1"
    /\ diff = RunDiff
    /\ reviewThreads \in {getReviewThreads(raw) : raw \in RawThreadInputs}
    /\ data \in AnalysisOutputs
    /\ effects = <<>>
    /\ labelOn = FALSE
    /\ failureMode = "fail"
    /\ counts = NoCounts
    /\ exitCode = -1
    /\ validLines = <<>>
    /\ mThreads = <<>>
    /\ mTitle = <<>>
    /\ mPath = <<>>
    /\ mResult = 0

\* a pass that remembers the passes before it: it leaves out the calls on
\* the threads an earlier pass already acted on
ReconcilePass_SkipsHandled ==
    /\ pc \in {"pass_1", "pass_2"}
    /\ validLines' = parseDiffForValidLines(RenderDiff(diff))
    /\ LET Fresh(c) == \A e \in DOMAIN effects :
                           c.op = "review" \/ effects[e].target # c.target
       IN  effects' = effects \o SelectSeq(DecidedCalls(data, reviewThreads, validLines'), Fresh)
    /\ pc' = IF pc = "pass_1" THEN "pass_2" ELSE "passed_twice"
    /\ UNCHANGED <<diff, mThreads, mTitle, mPath, mResult>>
    /\ UNCHANGED <<labelOn, failureMode, reviewThreads, data, counts, exitCode>>

\* postReview(analysisData, diff, modelId, isReReview, reviewThreads) with
\* every call succeeding: the anchors are parsed from the diff and the calls
\* are decided from the diff, the thread index and the model output
ReconcilePass ==
    /\ pc \in {"pass_1", "pass_2"}
    /\ validLines' = parseDiffForValidLines(RenderDiff(diff))
    /\ effects' = effects \o DecidedCalls(data, reviewThreads, validLines')
    /\ pc' = IF pc = "pass_1" THEN "pass_2" ELSE "passed_twice"
    /\ UNCHANGED <<diff, mThreads, mTitle, mPath, mResult>>
    /\ UNCHANGED <<labelOn, failureMode, reviewThreads, data, counts, exitCode>>

NextTwice == ReconcilePass

SpecTwice == InitTwice /\ [][NextTwice]_vars

(***************************************************************************)
(* Claims about the diff parser (SpecDiff).                                *)
(***************************************************************************)
\* C1: once a diff is parsed, every added ('+') or context (' ') line that
\* follows a '+++ b/<path>' header has its new-file line number in the anchor
\* set of <path>, and no deleted ('-') line is given a line number.
C1_EveryNewSideLineIsAnchor ==
    pc = "diff_parsed" =>
        /\ \A i \in DOMAIN diff :
              IsNewSide(diff[i]) =>
                  IsValidLine(validLines, FileOf(diff, i), NewFileLineNumber(diff, i))
        /\ \A i \in DOMAIN diff :
              diff[i].kind = "del" => AssignedLineNumber(RenderDiff(diff), i) = 0

\* the diff of the scenario: '@@ -10,3 +10,4 @@', ' ctxA', '+added1', '+added2', ' ctxB'
ScenarioDiff ==
    <<FileLine(PathA), HunkLine(10), CtxLine(TextPlain), AddLine(TextPlain),
      AddLine(TextPlain), CtxLine(TextPlain)>>

\* C2: in a hunk '@@ -a,b +c,d @@' the k-th added-or-context line is given
\* the line number c+k-1, however many deleted lines are interleaved, and the
\* scenario's hunk yields exactly {10, 11, 12, 13}.
C2_KthLineNumberedFromHunkStart ==
    pc = "diff_parsed" =>
        /\ \A i \in DOMAIN diff :
              IsNewSide(diff[i]) =>
                  AssignedLineNumber(RenderDiff(diff), i) = NewFileLineNumber(diff, i)
        /\ diff = ScenarioDiff => validLines = (PathA :> {10, 11, 12, 13})

(***************************************************************************)
(* Claims about the thread matcher (SpecMatch).                            *)
(***************************************************************************)
\* C3: whenever some thread's normalised title equals the normalised title
\* of the finding, the matcher returns a thread whose normalised title is
\* equal to it, even when an earlier thread matches by substring or by path.
C3_ExactTitleTakesPrecedence ==
    pc = "matched" =>
        ((\E i \in DOMAIN mThreads : norm(mThreads[i].botTitle) = norm(mTitle)) =>
            /\ mResult \in DOMAIN mThreads
            /\ norm(mThreads[mResult].botTitle) = norm(mTitle))

\* an earlier thread matches by substring and by path only, a later one
\* exactly, and the later one is returned
C3_Witness ==
    /\ pc = "matched"
    /\ Len(mThreads) = 2
    /\ norm(mThreads[1].botTitle) # norm(mTitle)
    /\ Includes(norm(mTitle), norm(mThreads[1].botTitle))
    /\ norm(mThreads[1].botTitle) # <<>>
    /\ mThreads[1].path = mPath
    /\ norm(mThreads[2].botTitle) = norm(mTitle)
    /\ mThreads[2].botTitle # mTitle
    /\ mResult = 2

(***************************************************************************)
(* Claims about a run (Spec).                                              *)
(***************************************************************************)
\* the review submission was made and succeeded
ReviewPosted == Len(effects) > 0 /\ effects[1].op = "review" /\ effects[1].ok

\* the review submission was made (its payload was built)
ReviewBuilt == Len(effects) > 0 /\ effects[1].op = "review"

ReviewComments == effects[1].payload.comments
ReviewBody == effects[1].payload.body

\* the open threads whose normalised title is the normalised title
SameKeyThreads(title) ==
    {i \in DOMAIN reviewThreads : norm(reviewThreads[i].botTitle) = norm(title)}

\* an inline comment of the review at the place and with the title of f
HasInlineCommentOf(f) ==
    \E c \in DOMAIN ReviewComments :
        /\ ReviewComments[c].path = f.path
        /\ ReviewComments[c].line = f.line
        /\ ReviewComments[c].body.title = f.title

IsMember(f, list) == \E j \in DOMAIN list : list[j] = f

\* a reply of kind k was issued for entry <<list, n>> on a thread of the set
ReplyIssued(k, list, n, threads) ==
    \E e \in DOMAIN effects :
        /\ effects[e].op = "reply"
        /\ effects[e].entry = <<list, n>>
        /\ effects[e].payload.kind = k
        /\ \E i \in threads : effects[e].target = reviewThreads[i].firstCommentId

\* a resolution was issued for entry <<list, n>> on a thread of the set
ResolveIssued(list, n, threads) ==
    \E e \in DOMAIN effects :
        /\ effects[e].op = "resolve"
        /\ effects[e].entry = <<list, n>>
        /\ \E i \in threads : effects[e].target = reviewThreads[i].threadId

\* C4: in a re-review whose review submission succeeded, a persisting
\* finding whose normalised title is that of an open bot thread gets a
\* "Still open" reply issued on such a thread, and adds no inline comment to
\* the review: the review has no more inline comments than new_findings has
\* entries, and none at the finding's place and title unless new_findings
\* lists that very finding too.
C4_PersistingIsBumpedNotReposted ==
    (ReviewPosted /\ IsReReview) =>
        \A n \in DOMAIN data.persisting :
            SameKeyThreads(data.persisting[n].title) # {} =>
                /\ ReplyIssued("still_open", "persisting", n,
                               SameKeyThreads(data.persisting[n].title))
                /\ Len(ReviewComments) <= Len(data.new_findings)
                /\ ~IsMember(data.persisting[n], data.new_findings) =>
                       ~HasInlineCommentOf(data.persisting[n])

\* the scenario: thread "Sq", persisting finding "sq!" on an anchor of the
\* diff, bumped, and no inline comment in the review
C4_Witness ==
    /\ ReviewPosted /\ IsReReview
    /\ Len(data.persisting) = 1
    /\ data.persisting[1].title = TitleSqBang
    /\ IsPlaceable(validLines, data.persisting[1])
    /\ reviewThreads[1].botTitle = TitleSq
    /\ ReplyIssued("still_open", "persisting", 1, {1})
    /\ ReviewComments = <<>>

\* the key of a finding is the key of an open thread: same normalised title,
\* same path
HasOpenThreadKey(f) ==
    \E i \in DOMAIN reviewThreads :
        /\ norm(reviewThreads[i].botTitle) = norm(f.title)
        /\ reviewThreads[i].path = f.path

Candidates == IF IsReReview THEN data.new_findings ELSE data.findings

\* the additional-findings section of the review body holds f with the text t
HasAdditionalEntryOf(f, t) ==
    \E a \in DOMAIN ReviewBody.additional :
        /\ ReviewBody.additional[a].path = f.path
        /\ ReviewBody.additional[a].line = f.line
        /\ ReviewBody.additional[a].title = f.title
        /\ ReviewBody.additional[a].text = t

\* the new-side line numbers of the hunks of path p in the diff of the run
AnchorsOfDiff(p) ==
    {NewFileLineNumber(diff, i) :
        i \in {j \in DOMAIN diff : IsNewSide(diff[j]) /\ FileOf(diff, j) = p}}

\* C6: each finding of the list selected for new comments is in exactly one
\* of two places of the review submission: an inline comment with side RIGHT
\* at (path, line) if and only if the line is in the anchor set of the path,
\* otherwise an entry of the additional-findings section with its full body;
\* every inline comment targets a line of the anchor set, which for the diff
\* of the run is the set of the new-side line numbers of its hunks.
C6_InlineIffAnchorElseBody ==
    ReviewBuilt =>
        /\ Len(ReviewComments) + Len(ReviewBody.additional) = Len(Candidates)
        /\ \A j \in DOMAIN Candidates :
              LET f == Candidates[j]
              IN  IF IsValidLine(validLines, f.path, f.line)
                  THEN /\ HasInlineCommentOf(f)
                       /\ ~HasAdditionalEntryOf(f, f.body)
                       /\ ~HasAdditionalEntryOf(f, f.title)
                  ELSE /\ ~HasInlineCommentOf(f)
                       /\ HasAdditionalEntryOf(f, IF f.body # <<>> THEN f.body ELSE f.title)
        /\ \A c \in DOMAIN ReviewComments :
              /\ ReviewComments[c].side = "RIGHT"
              /\ IsValidLine(validLines, ReviewComments[c].path, ReviewComments[c].line)
        /\ DOMAIN validLines = {PathA}
        /\ \A p \in DOMAIN validLines : validLines[p] = AnchorsOfDiff(p)

\* a review with one finding inline and one, off the diff, in the body with
\* its full body
C6_Witness ==
    /\ ReviewPosted
    /\ Len(Candidates) = 2
    /\ Len(ReviewComments) = 1
    /\ Len(ReviewBody.additional) = 1
    /\ ReviewBody.additional[1].line = 999
    /\ ReviewBody.additional[1].text = BodyText

\* C7: every finding of the model output is accounted for in exactly one of
\* the groups new, persisting, resolved, accepted, unplaceable-in-summary,
\* for both schemas and whatever the run mode: the sizes of the groups of the
\* review add up to the number of entries of the five lists.
C7_EveryFindingAccountedFor ==
    ReviewPosted =>
        Len(ReviewComments) + ReviewBody.persistingCount + Len(ReviewBody.resolved)
                + Len(ReviewBody.accepted) + Len(ReviewBody.additional)
            = Len(data.findings) + Len(data.persisting) + Len(data.new_findings)
                + Len(data.resolved) + Len(data.accepted_explanations)

\* the findings a run lists as new or persisting
NewAndPersisting == data.findings \o data.new_findings \o data.persisting

\* the model output has the lists of the schema of the run mode and no
\* list of the other schema
PayloadHasSchemaOfRun ==
    IF IsReReview
    THEN data.findings = <<>>
    ELSE /\ data.persisting = <<>>
         /\ data.new_findings = <<>>
         /\ data.resolved = <<>>
         /\ data.accepted_explanations = <<>>

LabelApplied == \E e \in DOMAIN effects : effects[e].op = "addLabel"

\* C9: a run whose model output has the schema of the run mode, status
\* APPROVED and only other-priority findings does not fail the pipeline (exit
\* code 0) and does not apply the non-compliant label.
C9_OtherNeverBlocks ==
    (/\ pc = "exited"
     /\ PayloadHasSchemaOfRun
     /\ data.status = "APPROVED"
     /\ \A i \in DOMAIN NewAndPersisting : NewAndPersisting[i].priority = "other") =>
        /\ exitCode = 0
        /\ ~LabelApplied

\* the red-icon (must_fix) inline comments and additional entries of the
\* review
RedComments == {c \in DOMAIN ReviewComments : ReviewComments[c].body.icon = "red"}
RedAdditional == {a \in DOMAIN ReviewBody.additional : ReviewBody.additional[a].icon = "red"}

\* C10: counting is independent of placement: totalIssues is the number of
\* entries of findings, persisting and new_findings, highPriorityCount and
\* mediumPriorityCount add up to at most totalIssues, and a must_fix finding
\* that went to the review body for want of an anchor is there with its full
\* body and is counted in highPriorityCount like the ones posted inline.
C10_CountsIgnorePlacement ==
    (pc = "exited" /\ ReviewPosted) =>
        /\ counts.totalIssues
              = Len(data.findings) + Len(data.persisting) + Len(data.new_findings)
        /\ counts.highPriorityCount + counts.mediumPriorityCount <= counts.totalIssues
        /\ counts.highPriorityCount >= Cardinality(RedComments) + Cardinality(RedAdditional)
        /\ \A j \in DOMAIN Candidates :
              (/\ Candidates[j].priority = "must_fix"
               /\ ~IsValidLine(validLines, Candidates[j].path, Candidates[j].line)) =>
                  /\ HasAdditionalEntryOf(Candidates[j], Candidates[j].body)
                  /\ counts.highPriorityCount >= 1
                  /\ counts.totalIssues >= 1

\* the scenario: a single must_fix finding at a:999, anchors of a = {1, 2}:
\* in the review body with its body, counted as high priority
C10_Witness ==
    /\ pc = "exited" /\ ReviewPosted
    /\ Len(Candidates) = 1
    /\ Candidates[1].priority = "must_fix"
    /\ Candidates[1].path = PathA /\ Candidates[1].line = 999
    /\ validLines = (PathA :> {1, 2})
    /\ HasAdditionalEntryOf(Candidates[1], BodyText)
    /\ ReviewComments = <<>>
    /\ counts.highPriorityCount = 1
    /\ counts.totalIssues = 1

(***************************************************************************)
(* Claims about the transitions of the threads in a run (Spec).            *)
(***************************************************************************)
\* effect e is a reply on the first comment of thread i of the index, or a
\* resolution of thread i
TargetsThread(e, i) ==
    \/ effects[e].op = "reply" /\ effects[e].target = reviewThreads[i].firstCommentId
    \/ effects[e].op = "resolve" /\ effects[e].target = reviewThreads[i].threadId

\* the entries of the model output that acted on thread i: one per bump,
\* resolve or accept
TransitionsOf(i) ==
    {effects[e].entry : e \in {x \in DOMAIN effects : TargetsThread(x, i)}}

\* C11: in a run each open thread of the index is the target of at most one
\* of bump, resolve or accept, and of that one at most once, for every model
\* output.
C11_AtMostOneTransitionPerThread ==
    \A i \in DOMAIN reviewThreads : Cardinality(TransitionsOf(i)) <= 1

\* a 'Still open' reply was posted on thread i
IsBumped(i) ==
    \E e \in DOMAIN effects :
        /\ TargetsThread(e, i)
        /\ effects[e].op = "reply"
        /\ effects[e].payload.kind = "still_open"
        /\ effects[e].ok

\* a resolution of thread i was issued
ResolveIssuedFor(i) ==
    \E e \in DOMAIN effects : TargetsThread(e, i) /\ effects[e].op = "resolve"

\* C12: a thread that is bumped in a run (a 'Still open' reply was posted on
\* it for a persisting finding) has no resolution issued for it in that run.
C12_BumpedThreadStaysUnresolved ==
    \A i \in DOMAIN reviewThreads : IsBumped(i) => ~ResolveIssuedFor(i)

\* the title (and the path, <<>> for none) of an entry is related to thread
\* i: equal or contained normalised titles, or the same path
IsRelated(i, title, path) ==
    \/ norm(reviewThreads[i].botTitle) = norm(title)
    \/ Includes(norm(reviewThreads[i].botTitle), norm(title))
    \/ Includes(norm(title), norm(reviewThreads[i].botTitle))
    \/ path # <<>> /\ reviewThreads[i].path = path

\* thread i is the thread findMatchingThread returns for an entry of
\* persisting, resolved or accepted_explanations
IsMatchedByAnEntry(i) ==
    \/ \E n \in DOMAIN data.persisting :
          findMatchingThread(reviewThreads, data.persisting[n].title, data.persisting[n].path) = i
    \/ \E n \in DOMAIN data.resolved :
          findMatchingThread(reviewThreads, data.resolved[n], <<>>) = i
    \/ \E n \in DOMAIN data.accepted_explanations :
          findMatchingThread(reviewThreads, data.accepted_explanations[n], <<>>) = i

\* the title and the path an effect was issued for, from the entry of the
\* model output it belongs to
EntryTitle(e) ==
    LET list == effects[e].entry[1]
        n == effects[e].entry[2]
    IN  IF list = "persisting" THEN data.persisting[n].title
        ELSE IF list = "resolved" THEN data.resolved[n]
        ELSE data.accepted_explanations[n]

EntryPath(e) ==
    IF effects[e].entry[1] = "persisting"
    THEN data.persisting[effects[e].entry[2]].path
    ELSE <<>>

\* C13: an open thread that no entry of persisting, resolved or
\* accepted_explanations matches receives no reply and no resolution in the
\* run; every reply and resolution on a thread belongs to an entry of one of
\* the three lists that is related to the thread by title or path.
C13_UnmatchedThreadIsUntouched ==
    \A i \in DOMAIN reviewThreads :
        /\ ~IsMatchedByAnEntry(i) => \A e \in DOMAIN effects : ~TargetsThread(e, i)
        /\ \A e \in DOMAIN effects :
              TargetsThread(e, i) =>
                  /\ effects[e].entry[1] \in {"persisting", "resolved", "accepted_explanations"}
                  /\ IsRelated(i, EntryTitle(e), EntryPath(e))

\* a re-review with two open threads: the first is acted on, the second,
\* which no entry matches, receives nothing
C13_Witness ==
    /\ ReviewPosted
    /\ Len(reviewThreads) = 2
    /\ IsMatchedByAnEntry(1)
    /\ \E e \in DOMAIN effects : TargetsThread(e, 1)
    /\ ~IsMatchedByAnEntry(2)
    /\ \A e \in DOMAIN effects : ~TargetsThread(e, 2)
    /\ Len(data.persisting) + Len(data.resolved) + Len(data.accepted_explanations) > 0

\* C14: the acknowledgement reply and the resolution of an accepted
\* explanation are issued only for a thread that has at least one human
\* reply: none is issued for a thread whose userReplies is empty.
C14_AcceptOnlyWithHumanReply ==
    \A i \in DOMAIN reviewThreads :
        \A e \in DOMAIN effects :
            (TargetsThread(e, i) /\ effects[e].entry[1] = "accepted_explanations") =>
                reviewThreads[i].userReplies # <<>>

\* the position in effects of the acknowledgement reply of entry n of
\* accepted_explanations on thread m, 0 when there is none
AckPosition(n, m) ==
    LET hits == {e \in DOMAIN effects :
                    /\ effects[e].op = "reply"
                    /\ effects[e].payload.kind = "accepted"
                    /\ effects[e].entry = <<"accepted_explanations", n>>
                    /\ effects[e].target = reviewThreads[m].firstCommentId}
    IN  IF hits = {} THEN 0 ELSE CHOOSE e \in hits : \A x \in hits : e <= x

\* C15: in a re-review whose review submission succeeded, for every entry
\* of accepted_explanations that matches a thread, the acknowledgement reply
\* on the thread is issued and the resolution of the thread is the call
\* issued right after it, whether the reply succeeded or failed; no
\* resolution for the entry comes before the reply.
C15_AckThenResolveEvenIfAckFails ==
    (ReviewPosted /\ IsReReview) =>
        \A n \in DOMAIN data.accepted_explanations :
            LET m == findMatchingThread(reviewThreads, data.accepted_explanations[n], <<>>)
                a == AckPosition(n, m)
            IN  m # 0 =>
                    /\ a # 0
                    /\ a + 1 \in DOMAIN effects
                    /\ effects[a + 1].op = "resolve"
                    /\ effects[a + 1].target = reviewThreads[m].threadId
                    /\ effects[a + 1].entry = <<"accepted_explanations", n>>
                    /\ \A e \in 1..(a - 1) :
                          ~(effects[e].op = "resolve"
                            /\ effects[e].entry = <<"accepted_explanations", n>>)

\* the acknowledgement reply on the thread 'Sq' failed and the resolution of
\* the thread follows it
C15_Witness ==
    /\ ReviewPosted /\ IsReReview
    /\ data.accepted_explanations = <<TitleSq>>
    /\ reviewThreads[1].botTitle = TitleSq
    /\ AckPosition(1, 1) # 0
    /\ ~effects[AckPosition(1, 1)].ok
    /\ Len(effects) > AckPosition(1, 1)
    /\ effects[AckPosition(1, 1) + 1].op = "resolve"
    /\ effects[AckPosition(1, 1) + 1].target = reviewThreads[1].threadId

(***************************************************************************)
(* Claims about the order and the channels of the effects (Spec).          *)
(***************************************************************************)
\* C16: in a re-review every bump reply and every thread resolution is
\* applied before the summary (the review submission with the review body)
\* is posted.
C16_ThreadEffectsBeforeSummary ==
    \A r \in DOMAIN effects :
        \A e \in DOMAIN effects :
            (effects[r].op = "review" /\ effects[e].op \in {"reply", "resolve"}) => e < r

\* every title and text of the review submission: of its inline comments and
\* of the sections of its body
ReviewTexts ==
    {ReviewComments[c].body.title : c \in DOMAIN ReviewComments}
        \cup {ReviewComments[c].body.text : c \in DOMAIN ReviewComments}
        \cup {ReviewBody.newIssues[i].title : i \in DOMAIN ReviewBody.newIssues}
        \cup {ReviewBody.mustFix[i].title : i \in DOMAIN ReviewBody.mustFix}
        \cup {ReviewBody.other[i].title : i \in DOMAIN ReviewBody.other}
        \cup {ReviewBody.additional[i].title : i \in DOMAIN ReviewBody.additional}
        \cup {ReviewBody.additional[i].text : i \in DOMAIN ReviewBody.additional}
        \cup {ReviewBody.resolved[i] : i \in DOMAIN ReviewBody.resolved}
        \cup {ReviewBody.accepted[i] : i \in DOMAIN ReviewBody.accepted}

\* the conversation comment that carries the general notes was issued
NotesCommentIssued ==
    \E e \in DOMAIN effects :
        /\ effects[e].op = "comment"
        /\ effects[e].payload.kind = "general_notes"
        /\ effects[e].payload.notes = data.general_notes

IsMalformed == ~data.parsed /\ pc \in {"catch", "aborted"}

\* C18: when the model response has no parseable JSON block, the run issues
\* no review submission (hence no inline comment), no thread reply and no
\* thread resolution; it issues exactly one call, the fallback notice
\* comment, and ends with exit code 1; the run never reaches the review, the
\* notes or the verdict.
C18_MalformedOutputIsFatal ==
    /\ ~data.parsed => pc \in {"threads", "analyze", "catch", "aborted"}
    /\ IsMalformed =>
          /\ \A e \in DOMAIN effects : effects[e].op \notin {"review", "reply", "resolve"}
          /\ pc = "catch" => effects = <<>>
          /\ pc = "aborted" =>
                /\ Len(effects) = 1
                /\ effects[1].op = "comment"
                /\ effects[1].payload.kind = "fallback"
                /\ exitCode = 1

\* a run on a pull request with an open thread whose model response was
\* malformed, at its end
C18_Witness ==
    /\ IsMalformed
    /\ pc = "aborted"
    /\ IsReReview
    /\ Len(effects) = 1
    /\ effects[1].ok
    /\ exitCode = 1

\* the findings of the model output, of its three lists of findings
AllFindings == data.findings \o data.persisting \o data.new_findings

\* a finding of the model output has a priority that is neither must_fix
\* nor other
HasInvalidPriority ==
    \E i \in DOMAIN AllFindings : AllFindings[i].priority \notin {"must_fix", "other"}

\* finding f is in the review submission: as an inline comment or as an
\* entry of the additional-findings section, under an icon of one of the two
\* priorities
IsPostedInReview(f) ==
    \/ HasInlineCommentOf(f)
    \/ \E a \in DOMAIN ReviewBody.additional :
          /\ ReviewBody.additional[a].title = f.title
          /\ ReviewBody.additional[a].path = f.path
          /\ ReviewBody.additional[a].line = f.line
          /\ ReviewBody.additional[a].icon \in {"red", "yellow"}

\* C19: a finding whose priority is outside {must_fix, other} is rejected
\* before reconciliation: the run whose model output has it posts no review
\* that shows the finding, under any icon, and does not reach a verdict.
C19_InvalidPriorityIsRejected ==
    (data.parsed /\ PayloadHasSchemaOfRun /\ HasInvalidPriority) =>
        /\ ReviewPosted =>
              \A i \in DOMAIN AllFindings :
                  AllFindings[i].priority \notin {"must_fix", "other"} =>
                      ~IsPostedInReview(AllFindings[i])
        /\ pc # "exited"

\* the replies and resolutions among the effects
ThreadEffects == {e \in DOMAIN effects : effects[e].op \in {"reply", "resolve"}}

\* a call of kind op was issued for entry <<list, n>> on thread m
IssuedOn(op, list, n, m) ==
    \E e \in ThreadEffects :
        /\ effects[e].op = op
        /\ effects[e].entry = <<list, n>>
        /\ TargetsThread(e, m)

\* the number of entries of a list of titles that match a thread
MatchedTitles(titles) ==
    Cardinality({n \in DOMAIN titles : findMatchingThread(reviewThreads, titles[n], <<>>) # 0})

\* the number of entries of persisting that match a thread
MatchedPersisting ==
    Cardinality({n \in DOMAIN data.persisting :
        findMatchingThread(reviewThreads, data.persisting[n].title, data.persisting[n].path) # 0})

\* C20: the failure of a thread reply or of a thread resolution does not
\* abort the run: in a re-review whose review submission succeeded, the
\* bump of every matched persisting entry, the resolution of every matched
\* resolved entry and the acknowledgement and resolution of every matched
\* accepted explanation are issued, and no other, whichever of them failed;
\* and a run that ends in the catch of main has a failed review submission
\* or a failed conversation comment, never only a failed reply or
\* resolution.
C20_ThreadCallFailureIsIsolated ==
    /\ (ReviewPosted /\ IsReReview) =>
          /\ \A n \in DOMAIN data.persisting :
                LET m == findMatchingThread(reviewThreads, data.persisting[n].title,
                                            data.persisting[n].path)
                IN  m # 0 => IssuedOn("reply", "persisting", n, m)
          /\ \A n \in DOMAIN data.resolved :
                LET m == findMatchingThread(reviewThreads, data.resolved[n], <<>>)
                IN  m # 0 => IssuedOn("resolve", "resolved", n, m)
          /\ \A n \in DOMAIN data.accepted_explanations :
                LET m == findMatchingThread(reviewThreads, data.accepted_explanations[n], <<>>)
                IN  m # 0 => /\ IssuedOn("reply", "accepted_explanations", n, m)
                             /\ IssuedOn("resolve", "accepted_explanations", n, m)
          /\ Cardinality(ThreadEffects) =
                MatchedPersisting + MatchedTitles(data.resolved)
                    + 2 * MatchedTitles(data.accepted_explanations)
    /\ (data.parsed /\ pc \in {"catch", "aborted"}) =>
          \E e \in DOMAIN effects :
              /\ ~effects[e].ok
              /\ \/ effects[e].op = "review"
                 \/ effects[e].op = "comment" /\ effects[e].payload.kind # "fallback"

\* a run that reached its verdict although its first thread call failed,
\* with a later thread call made after the failure
C20_Witness ==
    /\ pc = "exited"
    /\ ReviewPosted
    /\ Len(effects) >= 3
    /\ effects[2].op \in {"reply", "resolve"}
    /\ ~effects[2].ok
    /\ effects[3].op \in {"reply", "resolve"}
    /\ effects[3].entry # effects[2].entry
    /\ effects[3].ok

(***************************************************************************)
(* Claims about errors, replays and the order of the effects (Spec).       *)
(***************************************************************************)
\* effect e is one of the calls that apply the result of the run: the review
\* submission, a reply, a resolution, the general-notes comment or a label
\* call
IsApplicationEffect(e) ==
    \/ effects[e].op \in {"review", "reply", "resolve", "addLabel", "removeLabel"}
    \/ effects[e].op = "comment" /\ effects[e].payload.kind = "general_notes"

\* the model output reports an issue: the condition of the decision of main
\* on the counts of the output
FoundIssues(d) == countIssues(d).totalIssues > 0 \/ countIssues(d).shouldBlock

\* the exit status the verdict and the counts of the output decide
DecidedExit == IF FoundIssues(data) /\ failureMode = "fail" THEN 1 ELSE 0

\* the label calls the verdict and the counts of the output decide
DecidedLabelOps ==
    IF ~FoundIssues(data) THEN {"removeLabel"}
    ELSE IF failureMode = "label" THEN {"addLabel"}
    ELSE {}

LabelOpsIssued ==
    {effects[e].op : e \in {x \in DOMAIN effects : effects[x].op \in {"addLabel", "removeLabel"}}}

\* C21: when a call that applies the result fails (the review submission, a
\* reply, a resolution, the general-notes comment or a label call), the run
\* still ends with the exit status and the label call that the verdict and
\* the counts of the model output decide.
C21_EffectErrorKeepsOutcome ==
    /\ pc \in {"exited", "aborted"}
    /\ data.parsed
    /\ \E e \in DOMAIN effects : IsApplicationEffect(e) /\ ~effects[e].ok
    => /\ exitCode = DecidedExit
       /\ LabelOpsIssued = DecidedLabelOps

\* the three lists of the model output that act on threads, in the order
\* postReview goes through them
ThreadLists == <<"persisting", "resolved", "accepted_explanations">>

\* the index in reviewThreads of the thread findMatchingThread returns for
\* entry n of the list, 0 for none
MatchOfEntry(list, n) ==
    IF list = "persisting"
    THEN findMatchingThread(reviewThreads, data.persisting[n].title, data.persisting[n].path)
    ELSE findMatchingThread(reviewThreads, data[list][n], <<>>)

\* an effect was issued for entry n of the list
EffectIssuedFor(list, n) == \E e \in DOMAIN effects : effects[e].entry = <<list, n>>

\* entry n2 of list ThreadLists[l2] comes after entry n1 of ThreadLists[l1]
IsLaterEntry(l1, n1, l2, n2) == l2 > l1 \/ (l2 = l1 /\ n2 > n1)

\* C22: in a run whose review submission succeeded, an entry of persisting,
\* resolved or accepted_explanations that matches no open thread has no
\* effect issued for it, and every entry after it that matches a thread
\* still has its effect issued.
C22_UnmatchedEntryIsSkipped ==
    ReviewPosted =>
        \A l1 \in DOMAIN ThreadLists :
            \A n1 \in DOMAIN data[ThreadLists[l1]] :
                MatchOfEntry(ThreadLists[l1], n1) = 0 =>
                    /\ ~EffectIssuedFor(ThreadLists[l1], n1)
                    /\ \A l2 \in DOMAIN ThreadLists :
                          \A n2 \in DOMAIN data[ThreadLists[l2]] :
                              /\ IsLaterEntry(l1, n1, l2, n2)
                              /\ MatchOfEntry(ThreadLists[l2], n2) # 0
                              => EffectIssuedFor(ThreadLists[l2], n2)

\* a re-review whose first resolved entry matches no thread and whose second
\* does: nothing is issued for the first, the thread of the second is
\* resolved
C22_Witness ==
    /\ ReviewPosted
    /\ Len(data.resolved) = 2
    /\ MatchOfEntry("resolved", 1) = 0
    /\ ~EffectIssuedFor("resolved", 1)
    /\ MatchOfEntry("resolved", 2) # 0
    /\ ResolveIssued("resolved", 2, {MatchOfEntry("resolved", 2)})

(***************************************************************************)
(* Claims about two passes on the same inputs (SpecTwice).                 *)
(***************************************************************************)
\* the effects of the first and of the second pass, once both are made
FirstPass == SubSeq(effects, 1, Len(effects) \div 2)
SecondPass == SubSeq(effects, Len(effects) \div 2 + 1, Len(effects))

\* the partition a pass decides, read from its calls: the new findings
\* placed inline, the unplaceable ones, and for persisting, resolved and
\* accepted the entries acted on with the thread each one acts on
PartitionOf(pass) ==
    LET Acts(list) ==
            {<<pass[e].entry[2], pass[e].op, pass[e].target>> :
                e \in {x \in DOMAIN pass : pass[x].entry[1] = list}}
    IN  [new |-> pass[1].payload.comments,
         unplaceable |-> pass[1].payload.body.additional,
         persisting |-> Acts("persisting"),
         resolved |-> Acts("resolved"),
         accepted |-> Acts("accepted_explanations")]

LabelEffect ==
    IF \E e \in DOMAIN effects : effects[e].op \in {"addLabel", "removeLabel"}
    THEN CHOOSE e \in DOMAIN effects : effects[e].op \in {"addLabel", "removeLabel"}
    ELSE 0

\* C24: in failure-mode 'label', after every completed run of a sequence of
\* runs on the pull request whose label call succeeded, the label is on the
\* pull request if and only if the run found issues; a run with issues adds
\* the label and ends with exit status 0, and a passing run removes the label
\* a run before it left on the pull request.
C24_LabelFollowsEachRun ==
    /\ failureMode = "label"
    /\ pc = "exited"
    /\ LabelEffect # 0
    /\ effects[LabelEffect].ok
    => /\ labelOn = FoundIssues(data)
       /\ exitCode = 0
       /\ effects[LabelEffect].op = IF FoundIssues(data) THEN "addLabel" ELSE "removeLabel"

\* a passing run in failure-mode 'label' on a pull request that carried the
\* label from a run before it: the label is removed
C24_Witness ==
    /\ failureMode = "label"
    /\ pc = "exited"
    /\ ~FoundIssues(data)
    /\ LabelEffect # 0
    /\ effects[LabelEffect].op = "removeLabel"
    /\ effects[LabelEffect].payload.present
    /\ effects[LabelEffect].ok
    /\ ~labelOn

(***************************************************************************)
(* Claims about replaying the effects of a run (Spec).                     *)
(***************************************************************************)
\* C25: applying the effect list of a completed run a second time leaves the
\* pull request in the state one application leaves it in: the same reviews
\* and inline comments, the same replies on each thread, the same resolved
\* threads, the same conversation comments and the same label.
C25_ReplayLeavesSameRemoteState ==
    pc = "exited" => RemoteAfter(effects \o effects) = RemoteAfter(effects)

(***************************************************************************)
(* Claims about the order of the effects of a run (Spec).                  *)
(***************************************************************************)
IsThreadEffect(e) == effects[e].op \in {"reply", "resolve"}

\* the place of the list of an entry in the order of the loops of
\* postReview
ListRank(list) == CHOOSE l \in DOMAIN ThreadLists : ThreadLists[l] = list

\* thread effect i belongs to an entry that is not after the entry of thread
\* effect j
EntryNotAfter(i, j) ==
    \/ ListRank(effects[i].entry[1]) < ListRank(effects[j].entry[1])
    \/ /\ effects[i].entry[1] = effects[j].entry[1]
       /\ effects[i].entry[2] <= effects[j].entry[2]

\* C26: the effects of a run come in a fixed order: one review submission,
\* first; replies and resolutions only after it succeeded, directly after it
\* and one per call, the bumps of persisting first, then the resolutions of
\* resolved, then the acknowledgements and resolutions of accepted
\* explanations, each list in its own order; when the review submission
\* fails no reply and no resolution is issued.
C26_ReviewThenBumpsResolvesAccepts ==
    /\ \A e \in DOMAIN effects : effects[e].op = "review" => e = 1
    /\ \A e \in DOMAIN effects :
          IsThreadEffect(e) =>
              /\ ReviewPosted
              /\ \A k \in 2..e : IsThreadEffect(k)
    /\ \A i, j \in DOMAIN effects :
          IsThreadEffect(i) /\ IsThreadEffect(j) /\ i < j => EntryNotAfter(i, j)
    /\ ReviewBuilt /\ ~effects[1].ok => \A e \in DOMAIN effects : ~IsThreadEffect(e)

\* a re-review whose review submission is followed by the bump of a
\* persisting finding and then the resolution of a resolved one
C26_Witness ==
    /\ ReviewPosted
    /\ Len(effects) >= 3
    /\ effects[2].op = "reply"
    /\ effects[2].entry[1] = "persisting"
    /\ effects[3].op = "resolve"
    /\ effects[3].entry[1] = "resolved"

(***************************************************************************)
(* Claims about the path fallback of the matcher (SpecMatch).              *)
(***************************************************************************)
\* the title of thread i of the drawn threads matches the drawn title: the
\* normalised titles are equal or one contains the other
TitleMatches(i) ==
    \/ norm(mThreads[i].botTitle) = norm(mTitle)
    \/ Includes(norm(mThreads[i].botTitle), norm(mTitle))
    \/ Includes(norm(mTitle), norm(mThreads[i].botTitle))

\* the calls the loops over resolved and accepted_explanations issue for the
\* drawn title on the drawn threads
TitleOnlyCalls ==
    ResolveCalls(mThreads, <<mTitle>>, 1) \o AcceptCalls(mThreads, <<mTitle>>, 1)

\* C27: findMatchingThread returns a thread whose title does not match only
\* when no thread matches by exact or substring title, a path was supplied
\* and the thread is on that path; the loops over resolved and
\* accepted_explanations, which supply no path, reply to and resolve only
\* threads whose title matches.
C27_PathFallbackIsLastAndNeedsPath ==
    pc = "matched" =>
        /\ mResult # 0 /\ ~TitleMatches(mResult) =>
              /\ \A i \in DOMAIN mThreads : ~TitleMatches(i)
              /\ mPath # <<>>
              /\ mThreads[mResult].path = mPath
        /\ \A c \in DOMAIN TitleOnlyCalls :
              \A i \in DOMAIN mThreads :
                  TitleOnlyCalls[c].target \in {mThreads[i].threadId, mThreads[i].firstCommentId}
                      => TitleMatches(i)

\* a thread returned on its path alone (the second of two threads, neither
\* matching the title), for which a resolved or accepted entry of the same
\* title issues nothing
C27_Witness ==
    /\ pc = "matched"
    /\ Len(mThreads) = 2
    /\ mResult = 2
    /\ ~TitleMatches(1)
    /\ ~TitleMatches(2)
    /\ mPath # <<>>
    /\ mThreads[2].path = mPath
    /\ TitleOnlyCalls = <<>>

(***************************************************************************)
(* Claims about the thread index (SpecThreads).                            *)
(***************************************************************************)
\* the threads of the answer that thread t of the index was built from
SnapshotThreadsOf(t) == {k \in DOMAIN mThreads : mThreads[k].id = t.threadId}

\* the authors of the comments after the first of a thread of the answer
\* that the bot did not write, in their order
HumanAuthorsAfterFirst(raw) ==
    LET rest == Tail(raw.comments)
        NotBot(c) == c.author # BotLogin
        kept == SelectSeq(rest, NotBot)
    IN  [i \in DOMAIN kept |-> kept[i].author]

\* the calls postReview issues on the index for one entry of each kind, for
\* any finding and any title
CallsOnIndex ==
    UNION {{BumpCalls(reviewThreads, <<f>>, 1) : f \in FindingPool},
           {ResolveCalls(reviewThreads, <<t>>, 1) : t \in Titles},
           {AcceptCalls(reviewThreads, <<t>>, 1) : t \in Titles}}

\* the threads of the answer a call is made on
SnapshotThreadsCalled(c) ==
    {k \in DOMAIN mThreads :
        \/ c.op = "resolve" /\ c.target = mThreads[k].id
        \/ /\ c.op = "reply"
           /\ Len(mThreads[k].comments) > 0
           /\ c.target = mThreads[k].comments[1].databaseId}

\* C28: every thread of the index getReviewThreads returns comes from a
\* thread of the answer that is unresolved and whose first comment the bot
\* wrote; its userReplies are the comments after the first that the bot did
\* not write; so no reply and no resolution of postReview is made on a thread
\* that the answer reports resolved.
C28_IndexHoldsOpenBotThreadsOnly ==
    pc = "indexed" =>
        /\ \A i \in DOMAIN reviewThreads :
              /\ SnapshotThreadsOf(reviewThreads[i]) # {}
              /\ \A k \in SnapshotThreadsOf(reviewThreads[i]) :
                    /\ ~mThreads[k].isResolved
                    /\ Len(mThreads[k].comments) > 0
                    /\ mThreads[k].comments[1].author = BotLogin
                    /\ reviewThreads[i].firstCommentId = mThreads[k].comments[1].databaseId
                    /\ reviewThreads[i].userReplies = HumanAuthorsAfterFirst(mThreads[k])
              /\ \A r \in DOMAIN reviewThreads[i].userReplies :
                    reviewThreads[i].userReplies[r] # BotLogin
        /\ \A calls \in CallsOnIndex :
              \A c \in DOMAIN calls :
                  /\ SnapshotThreadsCalled(calls[c]) # {}
                  /\ \A k \in SnapshotThreadsCalled(calls[c]) : ~mThreads[k].isResolved

\* an answer with a resolved bot thread and an open one of the same title,
\* the open one with a bot reply and none by a human: only the open one is in
\* the index, with no user reply, and a resolved entry of that title resolves
\* the open one
C28_Witness ==
    /\ pc = "indexed"
    /\ Len(mThreads) = 2
    /\ mThreads[1].isResolved
    /\ Len(mThreads[1].comments) > 0
    /\ mThreads[1].comments[1].author = BotLogin
    /\ ~mThreads[2].isResolved
    /\ Len(mThreads[2].comments) = 2
    /\ mThreads[2].comments[2].author = BotLogin
    /\ Len(reviewThreads) = 1
    /\ reviewThreads[1].threadId = 2
    /\ reviewThreads[1].userReplies = <<>>
    /\ ResolveCalls(reviewThreads, <<TitleSq>>, 1) # <<>>

(***************************************************************************)
(* Claims about the mode of a run (Spec).                                  *)
(***************************************************************************)
\* the inline comments of the entries of data.findings that sit on an anchor
\* of the diff, in their order
InlineOfFindings ==
    LET OnAnchor(f) == f.line \in AnchorsOfDiff(f.path)
        placed == SelectSeq(data.findings, OnAnchor)
    IN  [i \in DOMAIN placed |-> InlineComment(placed[i])]

\* C29: the mode of a run is decided by the thread index alone: the review
\* is built as a re-review if and only if the index holds at least one
\* thread, whatever the model output says; replies and resolutions are
\* issued only when the index is non-empty; with an empty index (also what a
\* failed fetch yields) the run is a first review that posts data.findings
\* inline.
C29_ModeFollowsIndexAlone ==
    ReviewBuilt =>
        /\ ReviewBody.reReview = (Len(reviewThreads) > 0)
        /\ (\E e \in DOMAIN effects : IsThreadEffect(e)) => Len(reviewThreads) > 0
        /\ Len(reviewThreads) = 0 =>
              /\ ReviewComments = InlineOfFindings
              /\ \A e \in DOMAIN effects : ~IsThreadEffect(e)

\* a run with an empty index and a model output that has a finding on an
\* anchor and a resolved entry: the finding is posted inline in a first
\* review and nothing is resolved
C29_Witness ==
    /\ ReviewPosted
    /\ reviewThreads = <<>>
    /\ Len(data.resolved) > 0
    /\ Len(ReviewComments) = 1
    /\ ~ReviewBody.reReview
    /\ pc = "exited"
    /\ \A e \in DOMAIN effects : ~IsThreadEffect(e)

(***************************************************************************)
(* Claims about titles without letters or digits (SpecMatch).              *)
(***************************************************************************)
\* the title of thread i of the drawn threads is related to the drawn
\* title: the normalised titles are equal, or both are non-empty and one
\* contains the other
IsRelatedTitle(i) ==
    LET nt == norm(mThreads[i].botTitle)
        normTitle == norm(mTitle)
    IN  \/ nt = normTitle
        \/ /\ nt # <<>>
           /\ normTitle # <<>>
           /\ Includes(nt, normTitle) \/ Includes(normTitle, nt)

\* C30: findMatchingThread returns null when no path is supplied and no
\* thread has a title related to the given title; a title that normalises to
\* the empty string is related to no title that normalises to a non-empty
\* one.
C30_NullWithoutRelatedTitleOrPath ==
    /\ pc = "matched"
    /\ mPath = <<>>
    /\ \A i \in DOMAIN mThreads : ~IsRelatedTitle(i)
    => mResult = 0

====
